---- MODULE Spec2Model ----
(***************************************************************************)
(* The blockchain event stream (eventStream, eventElem) and its            *)
(* subscriptions (subscription.GetEvent / Close), as a state machine.      *)
(*                                                                         *)
(* Granularity.  Every access to memory that another goroutine can touch   *)
(* without holding eventStream.lock is a step of its own: the reader's     *)
(* test of s.elem.next, the reader's select, the writer's link, and each   *)
(* iteration of the writer's notify loop.  Accesses made under the lock to *)
(* data only ever touched under the lock (head, updateCh) are grouped.     *)
(* s.elem.next is read without the lock while push writes it: the read     *)
(* yields the pointer as it was before or after the write, which is the    *)
(* interleaving of the two steps.                                          *)
(*                                                                         *)
(* A run-time panic (nil dereference, close of a closed channel) is the    *)
(* outcome of the operation that raised it; it is recorded and the         *)
(* goroutine that raised it takes no further step.                         *)
(***************************************************************************)
EXTENDS Integers, Sequences, FiniteSets, TLC

\* ---- bounds of the model ------------------------------------------------
NumCursors == 2      \* subscriptions that may be created
NumWriters == 2      \* goroutines that call push
MaxPush == 2         \* push calls in a behaviour
MaxCalls == 2        \* GetEvent calls per subscription
MaxClose == 2        \* Close calls per subscription

NumChWriters == 1    \* goroutines that call push, where GetEventCh is used

Cursors == 1..NumCursors
Writers == 1..NumWriters
ChWriters == 1..NumChWriters

\* ---- values ---------------------------------------------------------------
\* the nil pointer: a nil *eventElem, and the nil *Event GetEvent returns
Nil == 0
\* outcome of a GetEvent call that panicked (no value is returned)
Panicked == 0 - 1

\* owners of eventStream.lock
Free == <<"free", 0>>
WriterId(w) == <<"push", w>>
SubscriberId(c) == <<"Head", c>>

VARIABLES
    \* eventElem objects, by allocation number: their event and next fields
    event, next,
    \* eventStream
    lock, head, updateCh,
    \* push calls: control point, argument, the e.head it read, the slice the
    \* range loop walks
    wpc, wev, whead, wrange,
    \* subscriptions: control point of the owner, s.elem, s.closeCh
    cpc, elem, closeCh,
    \* history: outcomes of the completed GetEvent calls of each subscription
    results,
    \* history: calls made so far
    npush, ncalls, ncloses,
    \* history: the element Head handed to the subscription, the number of
    \* entries linked when its channel was registered, and the channels each
    \* push ranged over
    start, regAt, fanout,
    \* history: push calls that returned
    ndone,
    \* history: Close panicked / the last call began closed / Close found the
    \* owner parked in the select
    closePanic, closedAtCall, parkedAtClose,
    \* history: the pairs <<a, b>> of events such that push(a) had returned
    \* when push(b) was called, and the wakes each subscription received
    hb, wakes,
    \* GetEventCh: the forwarding goroutine of each subscription, and what the
    \* consumer has received from its output channel
    fwd, received,
    \* Event: the Header objects (their values, by allocation number), the
    \* ones the caller owns, e.NewChain and e.OldChain (and whether each is
    \* still the nil slice)
    heap, callerHdrs, newChain, oldChain, newChainNil, oldChainNil,
    \* history: the outcome of the last Header() call and the length of
    \* NewChain it saw; the value each header had when it was added
    hret, hretAt, addedVal,
    \* staking: the arguments and the result of the PredeployStakingSC call,
    \* and of the setBytesToStorage call
    stakingIn, stakingOut, bytesIn, bytesOut,
    \* MockSubscription: m.eventCh, each Push caller and the event it sends,
    \* each receiver and what it received
    mockCh, mockPush, mockEv, mockGet, mockGot,
    \* history: the events in the order their sends completed, the Push
    \* calls made, the Close calls made
    mockLog, mockSent, mockCloses

vars == <<event, next, lock, head, updateCh, wpc, wev, whead, wrange, cpc,
          elem, closeCh, results, npush, ncalls, ncloses, start, regAt,
          fanout, ndone, closePanic, closedAtCall, parkedAtClose, hb, wakes,
          fwd, received, heap, callerHdrs, newChain, oldChain, newChainNil,
          oldChainNil, hret, hretAt, addedVal, stakingIn, stakingOut,
          bytesIn, bytesOut, mockCh, mockPush, mockEv, mockGet, mockGot,
          mockLog, mockSent, mockCloses>>

streamVars == <<event, next, lock, head, updateCh>>
writerVars == <<wpc, wev, whead, wrange, npush, fanout, ndone, hb>>
subVars == <<elem, closeCh, results>>
histVars == <<ncalls, ncloses, start, regAt, closePanic, closedAtCall,
              parkedAtClose>>
cursorVars == <<cpc, subVars, histVars, wakes>>
chVars == <<fwd, received>>
headerVars == <<heap, callerHdrs, newChain, oldChain, newChainNil,
                oldChainNil, hret, hretAt, addedVal>>

stakingVars == <<stakingIn, stakingOut, bytesIn, bytesOut>>
mockVars == <<mockCh, mockPush, mockEv, mockGet, mockGot, mockLog, mockSent,
              mockCloses>>
restVars == <<stakingVars, mockVars>>

\* hretAt before the first call of Header
NoCall == 0 - 1

\* ---- initial state of an Event: &Event{} and no Header object -------------
InitEvent ==
    /\ heap = <<>>
    /\ callerHdrs = {}
    /\ newChain = <<>>
    /\ oldChain = <<>>
    /\ newChainNil = TRUE
    /\ oldChainNil = TRUE
    /\ hret = Nil
    /\ hretAt = NoCall
    /\ addedVal = <<>>

\* ---- initial state of the staking helpers: neither has been called ---------
InitStaking ==
    /\ stakingIn = <<>>
    /\ stakingOut = <<>>
    /\ bytesIn = <<>>
    /\ bytesOut = <<>>

\* ---- initial state of a MockSubscription: NewMockSubscription() -------------
NumPushers == 2
NumGetters == 2
MaxMockPush == 3

Pushers == 1..NumPushers
Getters == 1..NumGetters

InitMock ==
    /\ mockCh = "open"
    /\ mockPush = [p \in Pushers |-> "idle"]
    /\ mockEv = [p \in Pushers |-> Nil]
    /\ mockGet = [g \in Getters |-> "idle"]
    /\ mockGot = [g \in Getters |-> <<>>]
    /\ mockLog = <<>>
    /\ mockSent = 0
    /\ mockCloses = 0

\* ---- initial state: &eventStream{} and no subscription ---------------------
Init ==
    /\ event = <<>>
    /\ next = <<>>
    /\ lock = Free
    /\ head = Nil
    /\ updateCh = <<>>
    /\ wpc = [w \in Writers |-> "idle"]
    /\ wev = [w \in Writers |-> Nil]
    /\ whead = [w \in Writers |-> Nil]
    /\ wrange = [w \in Writers |-> <<>>]
    /\ cpc = [c \in Cursors |-> "none"]
    /\ elem = [c \in Cursors |-> Nil]
    /\ closeCh = [c \in Cursors |-> "open"]
    /\ results = [c \in Cursors |-> <<>>]
    /\ npush = 0
    /\ ncalls = [c \in Cursors |-> 0]
    /\ ncloses = [c \in Cursors |-> 0]
    /\ start = [c \in Cursors |-> Nil]
    /\ regAt = [c \in Cursors |-> 0]
    /\ fanout = <<>>
    /\ ndone = 0
    /\ closePanic = [c \in Cursors |-> FALSE]
    /\ closedAtCall = [c \in Cursors |-> FALSE]
    /\ parkedAtClose = [c \in Cursors |-> FALSE]
    /\ hb = {}
    /\ wakes = [c \in Cursors |-> 0]
    /\ fwd = [c \in Cursors |-> "off"]
    /\ received = [c \in Cursors |-> <<>>]
    /\ InitEvent
    /\ InitStaking
    /\ InitMock

\* ---- a stream that has been pushed to ------------------------------------
\* The event of the entry the stream holds before any subscription exists.
Genesis == MaxPush + 1

\* push(Genesis) has returned on a fresh stream and nothing else has been
\* called: the state Init reaches by one complete push.  The counters of
\* calls start from here.
InitPushed ==
    /\ event = <<Genesis>>
    /\ next = <<Nil>>
    /\ lock = Free
    /\ head = 1
    /\ updateCh = <<>>
    /\ wpc = [w \in Writers |-> "idle"]
    /\ wev = [w \in Writers |-> Nil]
    /\ whead = [w \in Writers |-> Nil]
    /\ wrange = [w \in Writers |-> <<>>]
    /\ cpc = [c \in Cursors |-> "none"]
    /\ elem = [c \in Cursors |-> Nil]
    /\ closeCh = [c \in Cursors |-> "open"]
    /\ results = [c \in Cursors |-> <<>>]
    /\ npush = 0
    /\ ncalls = [c \in Cursors |-> 0]
    /\ ncloses = [c \in Cursors |-> 0]
    /\ start = [c \in Cursors |-> Nil]
    /\ regAt = [c \in Cursors |-> 0]
    /\ fanout = <<{}>>
    /\ ndone = 0
    /\ closePanic = [c \in Cursors |-> FALSE]
    /\ closedAtCall = [c \in Cursors |-> FALSE]
    /\ parkedAtClose = [c \in Cursors |-> FALSE]
    /\ hb = {}
    /\ wakes = [c \in Cursors |-> 0]
    /\ fwd = [c \in Cursors |-> "off"]
    /\ received = [c \in Cursors |-> <<>>]
    /\ InitEvent
    /\ InitStaking
    /\ InitMock

\* ---- sync.Mutex -------------------------------------------------------------
\* (a Lock that excludes nobody)
CanLockAlways(l) == TRUE

\* e.lock.Lock() returns only when no goroutine holds the lock
CanLock(l) == l = Free

\* ---- channels ---------------------------------------------------------------
\* s.updateCh is unbuffered: a send completes only by handing the value to a
\* goroutine parked in a receive.  The owner of c is parked on updateCh in the
\* select of GetEvent, and Close has not already released that select.
ReceiverParked(c) == cpc[c] = "wait" /\ closeCh[c] = "open"

\* (a send without the default branch: it waits for a parked receiver)
NotifyWaitsForReceiver(c) == ReceiverParked(c)

\* select { case update <- void{}: default: } never waits: with no parked
\* receiver it takes the default branch
NotifyProceeds(c) == TRUE

\* (one close signal shared by all the subscriptions of the stream)
CloseSelectedAny(c) == \E d \in Cursors : closeCh[d] = "closed"

\* (a select without the closeCh case)
CloseNeverSelected(c) == FALSE

\* case <-s.closeCh is ready exactly when the channel has been closed
CloseSelected(c) == closeCh[c] = "closed"

\* ---- sequences ------------------------------------------------------------------
Last(q) == q[Len(q)]

\* ---- eventElem ----------------------------------------------------------------
\* s.elem.next and s.elem.event of the element a subscription points at
NextOf(e) == next[e]
EventOf(e) == event[e]

\* ---- eventStream.push -------------------------------------------------------
\* the events whose push call has returned
Completed ==
    {event[i] : i \in 1..Len(event)}
        \ {wev[w] : w \in {v \in Writers : wpc[v] = "notify"}}

\* the call: a fresh *Event is handed to push
PushCall(w) ==
    /\ wpc[w] = "idle"
    /\ npush < MaxPush
    /\ npush' = npush + 1
    /\ wev' = [wev EXCEPT ![w] = npush + 1]
    /\ wpc' = [wpc EXCEPT ![w] = "lock"]
    /\ hb' = hb \cup {<<a, npush + 1>> : a \in Completed}
    /\ UNCHANGED <<streamVars, cursorVars, whead, wrange, fanout, ndone>>
    /\ UNCHANGED <<chVars, headerVars, restVars>>

\* e.lock.Lock(); the e.head that line 215 tests and line 216 links from is
\* read (nothing another goroutine can observe lies between the two)
PushLock(w) ==
    /\ wpc[w] = "lock"
    /\ CanLock(lock)
    /\ lock' = WriterId(w)
    /\ whead' = [whead EXCEPT ![w] = head]
    /\ wpc' = [wpc EXCEPT ![w] = "link"]
    /\ UNCHANGED <<event, next, head, updateCh, wev, wrange, npush, fanout,
                   ndone, hb, cursorVars>>
    /\ UNCHANGED <<chVars, headerVars, restVars>>

\* newHead := &eventElem{event: event}; e.head.next = newHead (when there is
\* a head); e.head = newHead; the range expression e.updateCh is evaluated
PushLink(w) ==
    /\ wpc[w] = "link"
    /\ LET newHead == Len(event) + 1 IN
         /\ event' = Append(event, wev[w])
         /\ next' = IF whead[w] # Nil
                      THEN [Append(next, Nil) EXCEPT ![whead[w]] = newHead]
                      ELSE Append(next, Nil)
         /\ head' = newHead
    /\ wrange' = [wrange EXCEPT ![w] = updateCh]
    /\ fanout' = Append(fanout, {updateCh[i] : i \in 1..Len(updateCh)})
    /\ wpc' = [wpc EXCEPT ![w] = "notify"]
    /\ UNCHANGED <<lock, updateCh, wev, whead, npush, ndone, hb, cursorVars>>
    /\ UNCHANGED <<chVars, headerVars, restVars>>

\* one iteration of the notify loop: a non-blocking send on the next channel;
\* a parked receiver is released and continues at the top of its loop
PushNotify(w) ==
    /\ wpc[w] = "notify"
    /\ wrange[w] # <<>>
    /\ LET c == Head(wrange[w]) IN
         /\ NotifyProceeds(c)
         /\ cpc' = IF ReceiverParked(c) THEN [cpc EXCEPT ![c] = "check"]
                                        ELSE cpc
         /\ wakes' = IF ReceiverParked(c) THEN [wakes EXCEPT ![c] = @ + 1]
                                          ELSE wakes
    /\ wrange' = [wrange EXCEPT ![w] = Tail(wrange[w])]
    /\ UNCHANGED <<streamVars, wpc, wev, whead, npush, fanout, ndone, hb,
                   subVars, histVars>>
    /\ UNCHANGED <<chVars, headerVars, restVars>>

\* the loop is over: e.lock.Unlock() and return
PushUnlock(w) ==
    /\ wpc[w] = "notify"
    /\ wrange[w] = <<>>
    /\ lock' = Free
    /\ wpc' = [wpc EXCEPT ![w] = "idle"]
    /\ ndone' = ndone + 1
    /\ UNCHANGED <<event, next, head, updateCh, wev, whead, wrange, npush,
                   fanout, hb, cursorVars>>
    /\ UNCHANGED <<chVars, headerVars, restVars>>

\* ---- eventStream.subscribe / eventStream.Head ------------------------------
\* e.lock.Lock(); head := e.head
HeadLock(c) ==
    /\ cpc[c] = "none"
    /\ CanLock(lock)
    /\ lock' = SubscriberId(c)
    /\ elem' = [elem EXCEPT ![c] = head]
    /\ start' = [start EXCEPT ![c] = head]
    /\ cpc' = [cpc EXCEPT ![c] = "Head"]
    /\ UNCHANGED <<event, next, head, updateCh, writerVars, closeCh, results,
                   ncalls, ncloses, regAt, closePanic, closedAtCall,
                   parkedAtClose, wakes>>
    /\ UNCHANGED <<chVars, headerVars, restVars>>

\* (the slice is replaced by one that holds the new channel alone)
RegisteredAlone(chs, c) == <<c>>

\* e.updateCh = append(e.updateCh, ch)
Registered(chs, c) == Append(chs, c)

\* ch := make(chan void); e.updateCh = append(e.updateCh, ch);
\* e.lock.Unlock(); subscribe builds the subscription around head and ch
HeadRegister(c) ==
    /\ cpc[c] = "Head"
    /\ updateCh' = Registered(updateCh, c)
    /\ lock' = Free
    /\ regAt' = [regAt EXCEPT ![c] = Len(event)]
    /\ cpc' = [cpc EXCEPT ![c] = "idle"]
    /\ UNCHANGED <<event, next, head, writerVars, elem, closeCh, results,
                   ncalls, ncloses, start, closePanic, closedAtCall,
                   parkedAtClose, wakes>>
    /\ UNCHANGED <<chVars, headerVars, restVars>>

\* ---- subscription.GetEvent ---------------------------------------------------
\* (the event is read before s.elem is advanced)
AdvancedStale(e) == EventOf(e)

\* the value GetEvent returns when s.elem.next is populated: s.elem is
\* advanced first and the event of the new element is returned
Advanced(e) == EventOf(NextOf(e))

\* called by the owner of the subscription, or by its forwarding goroutine
\* at the top of its loop
GetEventCall(c) ==
    /\ cpc[c] = "idle"
    /\ IF fwd[c] = "off" THEN ncalls[c] < MaxCalls ELSE fwd[c] = "loop"
    /\ fwd' = [fwd EXCEPT ![c] = IF @ = "loop" THEN "get" ELSE @]
    /\ ncalls' = [ncalls EXCEPT ![c] = @ + 1]
    /\ closedAtCall' = [closedAtCall EXCEPT ![c] = CloseSelected(c)]
    /\ cpc' = [cpc EXCEPT ![c] = "check"]
    /\ UNCHANGED <<streamVars, writerVars, elem, closeCh, results, ncloses,
                   start, regAt, closePanic, parkedAtClose, wakes, received,
                   headerVars, restVars>>

\* if s.elem.next != nil { s.elem = s.elem.next; return s.elem.event }
\* s.elem.next with s.elem nil is a nil pointer dereference
GetEventCheck(c) ==
    /\ cpc[c] = "check"
    /\ IF elem[c] = Nil
         THEN /\ results' = [results EXCEPT ![c] = Append(@, Panicked)]
              /\ cpc' = [cpc EXCEPT ![c] = "panic"]
              /\ UNCHANGED elem
         ELSE IF NextOf(elem[c]) # Nil
           THEN /\ elem' = [elem EXCEPT ![c] = NextOf(elem[c])]
                /\ results' = [results EXCEPT
                                 ![c] = Append(@, Advanced(elem[c]))]
                /\ cpc' = [cpc EXCEPT ![c] = "idle"]
           ELSE /\ cpc' = [cpc EXCEPT ![c] = "select"]
                /\ UNCHANGED <<elem, results>>
    /\ UNCHANGED <<streamVars, writerVars, closeCh, histVars, wakes>>
    /\ UNCHANGED <<chVars, headerVars, restVars>>

\* select { case <-s.updateCh: continue; case <-s.closeCh: return nil }
\* no sender ever waits on updateCh, so on entry only closeCh can be ready;
\* otherwise the goroutine parks on both channels
GetEventSelect(c) ==
    /\ cpc[c] = "select"
    /\ IF CloseSelected(c)
         THEN /\ results' = [results EXCEPT ![c] = Append(@, Nil)]
              /\ cpc' = [cpc EXCEPT ![c] = "idle"]
         ELSE /\ cpc' = [cpc EXCEPT ![c] = "wait"]
              /\ UNCHANGED results
    /\ UNCHANGED <<streamVars, writerVars, elem, closeCh, histVars, wakes>>
    /\ UNCHANGED <<chVars, headerVars, restVars>>

\* the parked select is released by the close of closeCh: return nil
GetEventClosed(c) ==
    /\ cpc[c] = "wait"
    /\ CloseSelected(c)
    /\ results' = [results EXCEPT ![c] = Append(@, Nil)]
    /\ cpc' = [cpc EXCEPT ![c] = "idle"]
    /\ UNCHANGED <<streamVars, writerVars, elem, closeCh, histVars, wakes>>
    /\ UNCHANGED <<chVars, headerVars, restVars>>

\* ---- subscription.GetEventCh ---------------------------------------------------
\* One GetEventCh call per subscription is modelled, made by the owner in
\* place of further GetEvent calls of its own (GetEvent has a single consumer).

\* (the loop has no test of the result: a nil result is sent on as well)
ForwarderNeverStops(r) == FALSE

\* if evnt == nil { return }
ForwarderStops(r) == r = Nil

\* the forwarding goroutine has a GetEvent result in hand
ForwarderHolds(c) == fwd[c] = "get" /\ cpc[c] = "idle"

\* eventCh := make(chan *Event); go func() { for { ... } }(); return eventCh
GetEventCh(c) ==
    /\ cpc[c] = "idle"
    /\ fwd[c] = "off"
    /\ fwd' = [fwd EXCEPT ![c] = "loop"]
    /\ UNCHANGED <<streamVars, writerVars, cursorVars, received, headerVars,
                   restVars>>

\* (the goroutine closes eventCh when it returns)
ChClosedOnReturn(c) == fwd[c] = "done"

\* whether eventCh is closed: the goroutine returns without close(eventCh),
\* and nothing else holds the channel's sending side
ChClosed(c) == FALSE

\* eventCh <- evnt: the channel is unbuffered, the send completes when the
\* consumer receives; the goroutine then loops.  A receive from a closed
\* channel completes at once with the zero value, nil.
ChanReceive(c) ==
    /\ IF ChClosed(c)
         THEN /\ received' = [received EXCEPT ![c] = Append(@, Nil)]
              /\ UNCHANGED fwd
         ELSE /\ ForwarderHolds(c)
              /\ ~ForwarderStops(Last(results[c]))
              /\ received' = [received EXCEPT
                                ![c] = Append(@, Last(results[c]))]
              /\ fwd' = [fwd EXCEPT ![c] = "loop"]
    /\ UNCHANGED <<streamVars, writerVars, cursorVars, headerVars, restVars>>

\* GetEvent returned nil: the goroutine returns
ForwarderReturn(c) ==
    /\ ForwarderHolds(c)
    /\ ForwarderStops(Last(results[c]))
    /\ fwd' = [fwd EXCEPT ![c] = "done"]
    /\ UNCHANGED <<streamVars, writerVars, cursorVars, received, headerVars,
                   restVars>>

\* ---- subscription.Close ------------------------------------------------------
\* close(s.closeCh), from any goroutine; closing a closed channel panics
Close(c) ==
    /\ cpc[c] \notin {"none", "Head"}
    /\ ncloses[c] < MaxClose
    /\ ncloses' = [ncloses EXCEPT ![c] = @ + 1]
    /\ IF closeCh[c] = "open"
         THEN /\ closeCh' = [closeCh EXCEPT ![c] = "closed"]
              /\ parkedAtClose' = [parkedAtClose EXCEPT ![c] = cpc[c] = "wait"]
              /\ UNCHANGED closePanic
         ELSE /\ closePanic' = [closePanic EXCEPT ![c] = TRUE]
              /\ UNCHANGED <<closeCh, parkedAtClose>>
    /\ UNCHANGED <<streamVars, writerVars, cpc, elem, results, ncalls, start,
                   regAt, closedAtCall, wakes>>
    /\ UNCHANGED <<chVars, headerVars, restVars>>

\* ---- the system ---------------------------------------------------------------
Next ==
    \/ \E w \in Writers : PushCall(w)
    \/ \E w \in Writers : PushLock(w)
    \/ \E w \in Writers : PushLink(w)
    \/ \E w \in Writers : PushNotify(w)
    \/ \E w \in Writers : PushUnlock(w)
    \/ \E c \in Cursors : HeadLock(c)
    \/ \E c \in Cursors : HeadRegister(c)
    \/ \E c \in Cursors : GetEventCall(c)
    \/ \E c \in Cursors : GetEventCheck(c)
    \/ \E c \in Cursors : GetEventSelect(c)
    \/ \E c \in Cursors : GetEventClosed(c)
    \/ \E c \in Cursors : Close(c)

Spec == Init /\ [][Next]_vars

\* the same system, started from a stream that holds one entry
PushedSpec == InitPushed /\ [][Next]_vars

\* the system in which every subscription is consumed through GetEventCh
\* (its owner makes no GetEvent call of its own), started from a stream that
\* holds one entry
NextCh ==
    \/ \E w \in ChWriters : PushCall(w)
    \/ \E w \in ChWriters : PushLock(w)
    \/ \E w \in ChWriters : PushLink(w)
    \/ \E w \in ChWriters : PushNotify(w)
    \/ \E w \in ChWriters : PushUnlock(w)
    \/ \E c \in Cursors : HeadLock(c)
    \/ \E c \in Cursors : HeadRegister(c)
    \/ \E c \in Cursors : fwd[c] = "loop" /\ GetEventCall(c)
    \/ \E c \in Cursors : GetEventCheck(c)
    \/ \E c \in Cursors : GetEventSelect(c)
    \/ \E c \in Cursors : GetEventClosed(c)
    \/ \E c \in Cursors : Close(c)
    \/ \E c \in Cursors : GetEventCh(c)
    \/ \E c \in Cursors : ChanReceive(c)
    \/ \E c \in Cursors : ForwarderReturn(c)

ChSpec == InitPushed /\ [][NextCh]_vars

\* The scheduler runs every goroutine that can take a step: a push or a Head
\* call in progress, and a GetEvent call in progress.  Whether anybody calls
\* push, subscribe, GetEvent or Close again is left open.
FairSpec ==
    /\ Spec
    /\ \A w \in Writers :
         WF_vars(PushLock(w) \/ PushLink(w) \/ PushNotify(w) \/ PushUnlock(w))
    /\ \A c \in Cursors : WF_vars(HeadRegister(c))
    /\ \A c \in Cursors :
         WF_vars(GetEventCheck(c) \/ GetEventSelect(c) \/ GetEventClosed(c))

\* The same scheduling where GetEventCh is used: the forwarding goroutine
\* runs whenever it can call GetEvent or return.  Whether the consumer of the
\* output channel receives is left open.
FairChSpec ==
    /\ ChSpec
    /\ \A w \in ChWriters :
         WF_vars(PushLock(w) \/ PushLink(w) \/ PushNotify(w) \/ PushUnlock(w))
    /\ \A c \in Cursors : WF_vars(HeadRegister(c))
    /\ \A c \in Cursors :
         WF_vars(GetEventCheck(c) \/ GetEventSelect(c) \/ GetEventClosed(c))
    /\ \A c \in Cursors :
         WF_vars((fwd[c] = "loop" /\ GetEventCall(c)) \/ ForwarderReturn(c))

\* ---- Event: the headers of an event ------------------------------------------
\* A Header object is a cell of heap: its reference is the index, its value
\* the cell's content.  callerHdrs are the objects the caller of the Event
\* made and may still write to; newChain and oldChain hold references.  An
\* Event is built by one goroutine, so each method is one step; a panic ends
\* that goroutine.
MaxHeaders == 5
NumHeaderVals == 2

HeaderVals == 1..NumHeaderVals

\* types.Header.Copy(): a fresh object with the field values of o
Copied(o) == Len(heap) + 1

\* len(e.NewChain)-1, counted from 1
FirstIndex(q) == 1
LastIndex(q) == Len(q)

\* e.NewChain[len(e.NewChain)-1]: an index out of range panics
HeaderResultOrNil(q) == IF q = <<>> THEN Nil ELSE q[LastIndex(q)]
HeaderResult(q) ==
    IF LastIndex(q) \in DOMAIN q THEN q[LastIndex(q)] ELSE Panicked

EventRuns == hret # Panicked

\* the caller makes a header with value v
NewHeader(v) ==
    /\ EventRuns
    /\ Len(heap) < MaxHeaders
    /\ heap' = Append(heap, v)
    /\ callerHdrs' = callerHdrs \cup {Len(heap) + 1}
    /\ UNCHANGED <<newChain, oldChain, newChainNil, oldChainNil, hret, hretAt,
                   addedVal>>
    /\ UNCHANGED <<streamVars, writerVars, cursorVars, chVars, restVars>>

\* the caller writes to a header of its own
MutateHeader(o, v) ==
    /\ EventRuns
    /\ o \in callerHdrs
    /\ heap[o] # v
    /\ heap' = [heap EXCEPT ![o] = v]
    /\ UNCHANGED <<callerHdrs, newChain, oldChain, newChainNil, oldChainNil,
                   hret, hretAt, addedVal>>
    /\ UNCHANGED <<streamVars, writerVars, cursorVars, chVars, restVars>>

AddNewHeader(o) ==
    /\ EventRuns
    /\ o \in callerHdrs
    /\ Len(heap) < MaxHeaders
    /\ heap' = Append(heap, heap[o])
    /\ newChainNil' = FALSE
    /\ newChain' = Append(IF newChainNil THEN <<>> ELSE newChain, Copied(o))
    /\ addedVal' = Append(addedVal, <<o, heap[o]>>)
    /\ UNCHANGED <<callerHdrs, oldChain, oldChainNil, hret, hretAt>>
    /\ UNCHANGED <<streamVars, writerVars, cursorVars, chVars, restVars>>

AddOldHeader(o) ==
    /\ EventRuns
    /\ o \in callerHdrs
    /\ Len(heap) < MaxHeaders
    /\ heap' = Append(heap, heap[o])
    /\ oldChainNil' = FALSE
    /\ oldChain' = Append(IF oldChainNil THEN <<>> ELSE oldChain, Copied(o))
    /\ UNCHANGED <<callerHdrs, newChain, newChainNil, hret, hretAt, addedVal>>
    /\ UNCHANGED <<streamVars, writerVars, cursorVars, chVars, restVars>>

Header ==
    /\ EventRuns
    /\ hret' = HeaderResult(newChain)
    /\ hretAt' = Len(newChain)
    /\ UNCHANGED <<heap, callerHdrs, newChain, oldChain, newChainNil,
                   oldChainNil, addedVal>>
    /\ UNCHANGED <<streamVars, writerVars, cursorVars, chVars, restVars>>

NextEvent ==
    \/ \E v \in HeaderVals : NewHeader(v)
    \/ \E o \in DOMAIN heap, v \in HeaderVals : MutateHeader(o, v)
    \/ \E o \in DOMAIN heap : AddNewHeader(o)
    \/ \E o \in DOMAIN heap : AddOldHeader(o)
    \/ Header

EventSpec == Init /\ [][NextEvent]_vars

\* ---- what the claims speak of ---------------------------------------------
Attached(c) == cpc[c] \notin {"none", "Head"}
IsEvent(r) == r > 0
IsPrefix(p, q) == Len(p) <= Len(q) /\ \A i \in 1..Len(p) : p[i] = q[i]

\* the events a subscription has returned so far, in the order of its calls
Returned(c) == SelectSeq(results[c], IsEvent)
\* the events pushed after the subscription was registered, in push order
PushedAfter(c) == SubSeq(event, regAt[c] + 1, Len(event))
\* the events pushed before the subscription was registered
PushedBefore(c) == {event[i] : i \in 1..regAt[c]}

\* C1: what a cursor has returned is a prefix of what was pushed after it
\* attached, in push order, nothing skipped and nothing twice; and a cursor
\* that is not closed got an event from every GetEvent call it completed.
C1_ExactlyThePushedEvents ==
    \A c \in Cursors :
        Attached(c) =>
            /\ IsPrefix(Returned(c), PushedAfter(c))
            /\ closeCh[c] = "open" => results[c] = Returned(c)

\* C2: a GetEvent call does not stay blocked in the select once the element
\* after its position is linked (no wake-up is lost).
C2_NoLostWakeup ==
    \A c \in Cursors :
        (cpc[c] = "wait" /\ closeCh[c] = "open" /\ NextOf(elem[c]) # Nil)
            ~> (cpc[c] # "wait")

\* C3: a cursor never returns an event that was pushed before its
\* registration, and the first event it returns is the first one pushed
\* after its registration.
C3_NothingFromBeforeSubscribe ==
    \A c \in Cursors :
        /\ \A i \in 1..Len(results[c]) : results[c][i] \notin PushedBefore(c)
        /\ Returned(c) # <<>> => Returned(c)[1] = event[regAt[c] + 1]

C3_Witness ==
    \E c \in Cursors :
        /\ regAt[c] >= 1
        /\ Returned(c) # <<>>
        /\ Returned(c)[1] = event[regAt[c] + 1]

\* C4: GetEvent on a cursor that was created while the log held no entry
\* does not fault.
C4_EmptyLogCursorIsValid ==
    \A c \in Cursors :
        (Attached(c) /\ start[c] = Nil) =>
            \A i \in 1..Len(results[c]) : results[c][i] # Panicked

\* C5: a GetEvent call made after Close returns end-of-stream.
C5_ClosedReturnsEndOfStream ==
    \A c \in Cursors :
        (cpc[c] = "idle" /\ closedAtCall[c] /\ results[c] # <<>>) =>
            Last(results[c]) = Nil

\* C6: once GetEvent has returned end-of-stream, every later GetEvent call
\* on that cursor returns end-of-stream.
C6_ClosedIsAbsorbing ==
    \A c \in Cursors :
        \A i \in 1..Len(results[c]) : \A j \in i..Len(results[c]) :
            results[c][i] = Nil => results[c][j] = Nil

\* C7: Close on a cursor that is already closed raises no fatal error.
C7_CloseIsIdempotent ==
    \A c \in Cursors : ~closePanic[c]

\* C8: a GetEvent call parked in the select when its cursor is closed
\* returns end-of-stream, with no push needed.
C8_CloseReleasesBlockedGetEvent ==
    \A c \in Cursors :
        (cpc[c] = "wait" /\ closeCh[c] = "closed")
            ~> (cpc[c] = "idle" /\ results[c] # <<>> /\ Last(results[c]) = Nil)

C8_Witness ==
    \E c \in Cursors :
        /\ parkedAtClose[c]
        /\ cpc[c] = "idle"
        /\ results[c] = <<Nil>>
        /\ Len(event) = regAt[c]

\* C9: every push call that has begun returns, whatever the cursors do.
C9_PushTerminates ==
    \A w \in Writers : (wpc[w] # "idle") ~> (wpc[w] = "idle")

C9_Witness ==
    /\ \A w \in Writers : wpc[w] = "idle"
    /\ ndone = Len(event)
    /\ \E c, d \in Cursors : \E i \in 1..Len(fanout) :
         /\ c # d
         /\ {c, d} \subseteq fanout[i]
         /\ cpc[c] = "wait"
         /\ ncalls[d] = 0

\* C10: for every cursor and every push, the pushed entry lies at or before
\* the cursor's starting position, or the cursor's wake signal was in the
\* notify fan-out of that push.
C10_RegistrationAtomic ==
    \A c \in Cursors :
        cpc[c] # "none" =>
            \A i \in 1..Len(event) : i > start[c] => c \in fanout[i]

C10_Witness ==
    \E c \in Cursors : \E i, j \in 1..Len(event) :
        /\ Attached(c)
        /\ i <= start[c]
        /\ j > start[c]
        /\ c \notin fanout[i]
        /\ c \in fanout[j]

\* ---- the order of pushes ---------------------------------------------------
\* the place of an event in a sequence of distinct events
IndexIn(q, e) == CHOOSE i \in 1..Len(q) : q[i] = e
Occurs(q, e) == \E i \in 1..Len(q) : q[i] = e

\* C11: the pushes are serialized into one total order (one chain that holds
\* every linked entry once); a push that returned before another was called
\* comes first in it; no cursor returns two events against that order, and
\* two cursors that return the same two events return them in the same
\* relative order.
C11_PushesTotallyOrdered ==
    /\ \A i \in 1..Len(event) :
         next[i] = IF i < Len(event) THEN i + 1 ELSE Nil
    /\ \A i, j \in 1..Len(event) : event[i] = event[j] => i = j
    /\ \A p \in hb :
         Occurs(event, p[2]) =>
             /\ Occurs(event, p[1])
             /\ IndexIn(event, p[1]) < IndexIn(event, p[2])
    /\ \A c \in Cursors : \A i, j \in 1..Len(Returned(c)) :
         i < j =>
             /\ <<Returned(c)[j], Returned(c)[i]>> \notin hb
             /\ IndexIn(event, Returned(c)[i]) < IndexIn(event, Returned(c)[j])
    /\ \A c, d \in Cursors : \A i, j \in 1..Len(Returned(c)) :
         (i < j /\ Occurs(Returned(d), Returned(c)[i])
                /\ Occurs(Returned(d), Returned(c)[j])) =>
             IndexIn(Returned(d), Returned(c)[i])
                 < IndexIn(Returned(d), Returned(c)[j])

\* two pushes overlapped (the one called second was linked first) and two
\* cursors have both returned the two events
C11_Witness ==
    /\ event = <<Genesis, 2, 1>>
    /\ \E c, d \in Cursors :
         c # d /\ Returned(c) = <<2, 1>> /\ Returned(d) = <<2, 1>>

\* ---- independence of the cursors ---------------------------------------------
\* a step of the owner of cursor d: one of its GetEvent steps, or Close(d)
OwnerStep(d) ==
    \/ GetEventCall(d)
    \/ GetEventCheck(d)
    \/ GetEventSelect(d)
    \/ GetEventClosed(d)
    \/ Close(d)

\* what belongs to cursor c
CursorState(c) ==
    <<cpc[c], elem[c], closeCh[c], results[c], wakes[c], start[c], regAt[c]>>

\* what cursor c has returned, and where it stands, is decided by its own
\* attach point and its own calls
OwnSuffix(c) ==
    /\ IsPrefix(Returned(c), PushedAfter(c))
    /\ elem[c] = start[c] + Len(Returned(c))
    /\ (elem[c] # Nil /\ elem[c] < Len(event)) => NextOf(elem[c]) # Nil
    /\ (\E i \in 1..Len(results[c]) : results[c][i] = Nil) =>
           closeCh[c] = "closed"

\* C12: each cursor's returned sequence is the run of pushed events that
\* begins at its own attach point, its position depends on its own calls
\* alone, it reports end-of-stream only after its own Close, and no step of
\* another cursor's owner changes anything of it.
C12_CursorsIndependent ==
    /\ [](\A c \in Cursors : Attached(c) => OwnSuffix(c))
    /\ [][\A c, d \in Cursors :
            (c # d /\ OwnerStep(d)) => CursorState(c)' = CursorState(c)]_vars

\* two cursors attached at different points; each has returned all of its
\* own suffix, and one of them is closed
C12_Witness ==
    \E c, d \in Cursors :
        /\ regAt[c] = 1 /\ regAt[d] = 2
        /\ Len(event) = 3
        /\ Returned(c) = PushedAfter(c)
        /\ Returned(d) = PushedAfter(d)
        /\ closeCh[d] = "closed"
        /\ closeCh[c] = "open"

\* ---- the entry chain --------------------------------------------------------
\* following forward links never comes back: a link leads to a later entry
NoCycle == \A i \in 1..Len(next) : next[i] = Nil \/ next[i] > i

\* what a step may do to the entries that exist before it
WriteOnce ==
    /\ Len(event') >= Len(event)
    /\ Len(next') = Len(event')
    /\ \A i \in 1..Len(event) :
         /\ event'[i] = event[i]
         /\ next[i] # Nil => next'[i] = next[i]
         /\ next'[i] # next[i] =>
                /\ \E w \in Writers : PushLink(w)
                /\ i = head
                /\ next'[i] = Len(event) + 1
                /\ head' = Len(event) + 1

\* C13: the chain is append-only and write-once: no entry is removed or
\* reordered, an entry's event never changes, a forward link changes at most
\* once, from absent to the entry the linking push creates, and the chain
\* has no cycle.
C13_ChainWriteOnce == []NoCycle /\ [][WriteOnce]_vars

\* three entries, each linked to the next by the push that appended it
C13_Witness ==
    /\ Len(event) = 3
    /\ next = <<2, 3, Nil>>
    /\ head = 3

\* ---- the forwarding goroutine of GetEventCh ------------------------------------
\* C14: once the cursor is closed, its forwarding goroutine terminates.
C14_ForwarderTerminates ==
    \A c \in Cursors :
        (closeCh[c] = "closed" /\ fwd[c] \in {"loop", "get"})
            ~> (fwd[c] = "done")

\* the event the forwarding goroutine holds and has not yet handed over
InHand(c) ==
    IF ForwarderHolds(c) /\ results[c] # <<>> /\ IsEvent(Last(results[c]))
      THEN <<Last(results[c])>>
      ELSE <<>>

\* C15: the output channel delivers the events GetEvent returns, in push
\* order and each once (all of them but the one the goroutine has in hand);
\* the goroutine stops at the first end-of-stream result, which is not sent,
\* and nothing is sent or read afterwards.
C15_ChannelDeliversGetEvent ==
    /\ [](\A c \in Cursors :
            /\ Returned(c) = received[c] \o InHand(c)
            /\ IsPrefix(received[c], PushedAfter(c))
            /\ fwd[c] = "done" =>
                   /\ Last(results[c]) = Nil
                   /\ results[c] = Append(received[c], Nil))
    /\ [][\A c \in Cursors :
            fwd[c] = "done" =>
                /\ fwd'[c] = "done"
                /\ received'[c] = received[c]
                /\ results'[c] = results[c]]_vars

\* two events were delivered, then the cursor was closed and the goroutine
\* has stopped
C15_Witness ==
    \E c \in Cursors :
        /\ fwd[c] = "done"
        /\ Len(received[c]) = 2
        /\ received[c] = PushedAfter(c)

\* ---- Event ----------------------------------------------------------------------
\* C16: NewChain holds, in insertion order, one object per AddNewHeader call;
\* each is an object of its own, different from the header it was copied
\* from and from every header of the caller, and its value is the value that
\* header had when it was added, whatever the caller wrote to the header
\* since; Header() returns the object added last.
C16_AddNewHeaderCopies ==
    /\ Len(newChain) = Len(addedVal)
    /\ \A i \in DOMAIN newChain :
          /\ newChain[i] \in DOMAIN heap
          /\ newChain[i] # addedVal[i][1]
          /\ newChain[i] \notin callerHdrs
          /\ heap[newChain[i]] = addedVal[i][2]
          /\ \A j \in DOMAIN newChain : newChain[j] = newChain[i] => j = i
    /\ hretAt > 0 =>
          /\ hret = newChain[hretAt]
          /\ heap[hret] = addedVal[hretAt][2]

\* two headers were added, Header() returned the second, and the caller has
\* since written to the header that copy was made from
C16_Witness ==
    /\ Len(newChain) = 2
    /\ hretAt = 2
    /\ heap[addedVal[2][1]] # addedVal[2][2]
    /\ heap[hret] = addedVal[2][2]

\* C17: Header() called while NewChain is empty panics; it returns neither a
\* header nor an error value, and the goroutine does nothing afterwards.
C17_HeaderOnEmptyPanics ==
    /\ [](hretAt = 0 => hret = Panicked)
    /\ [](hret = Panicked => hretAt = 0 /\ newChain = <<>>)
    /\ [][hret = Panicked => UNCHANGED headerVars]_vars

\* Header() was called on an Event that has headers only in OldChain
C17_Witness ==
    /\ hretAt = 0
    /\ hret = Panicked
    /\ oldChain # <<>>

\* ---- wake signals ----------------------------------------------------------------
\* cursor c is in a GetEvent call that found the entry after its position
CheckFindsNext(c) ==
    cpc[c] = "check" /\ elem[c] # Nil /\ NextOf(elem[c]) # Nil

\* C18: a wake is delivered only to a cursor parked in its select and unparks
\* it, so the pushes that complete while the cursor stays parked or between
\* calls deliver at most one wake; a notify that finds no parked receiver is
\* dropped, the push going on at once and the cursor left as it was; and a
\* GetEvent call that finds the next entry returns its event without parking,
\* so the events come in push order whatever the number of wakes.
C18_WakesCoalesce ==
    /\ [](\A w \in Writers :
            (wpc[w] = "notify" /\ wrange[w] # <<>>) => ENABLED PushNotify(w))
    /\ [](\A c \in Cursors :
            Attached(c) => IsPrefix(Returned(c), PushedAfter(c)))
    /\ [][\A c \in Cursors :
            /\ wakes'[c] # wakes[c] =>
                  /\ wakes'[c] = wakes[c] + 1
                  /\ cpc[c] = "wait" /\ cpc'[c] = "check"
            /\ (\E w \in Writers :
                  /\ PushNotify(w)
                  /\ Head(wrange[w]) = c
                  /\ cpc[c] # "wait") => CursorState(c)' = CursorState(c)
            /\ (CheckFindsNext(c) /\ cpc'[c] # cpc[c]) =>
                  /\ cpc'[c] = "idle"
                  /\ results'[c] = Append(results[c], EventOf(NextOf(elem[c])))
                  /\ wakes'[c] = wakes[c]]_vars

\* both pushes notified the cursor, it was woken once, and it has returned
\* both events
C18_Witness ==
    \E c \in Cursors :
        /\ regAt[c] = 1
        /\ ndone = 2
        /\ \A i \in 2..3 : c \in fanout[i]
        /\ wakes[c] = 1
        /\ Len(Returned(c)) = 2

\* ---- frame of the cursor and of the stream ------------------------------------
\* C19: once a subscription exists, its position changes only in its own
\* GetEvent, by one forward link, in the step that returns the event of the
\* entry moved to; a step that returns end-of-stream, and every step that
\* returns nothing (a wake among them), leaves the position where it was.
C19_PositionMovesForward ==
    /\ [](\A c \in Cursors :
            (Attached(c) /\ start[c] # Nil) =>
                elem[c] = start[c] + Len(Returned(c)))
    /\ [][\A c \in Cursors :
            /\ (cpc[c] # "none" /\ elem'[c] # elem[c]) =>
                  /\ GetEventCheck(c)
                  /\ elem[c] # Nil
                  /\ elem'[c] = NextOf(elem[c])
                  /\ results'[c] = Append(results[c], EventOf(elem'[c]))
            /\ results'[c] # results[c] =>
                  IF IsEvent(Last(results'[c]))
                    THEN elem'[c] # elem[c]
                    ELSE elem'[c] = elem[c]]_vars

\* one cursor moved forward twice; another moved once and was then told
\* end-of-stream
C19_Witness ==
    \E c, d \in Cursors :
        /\ Len(Returned(c)) = 2
        /\ elem[c] = start[c] + 2
        /\ Len(results[d]) = 2
        /\ IsEvent(results[d][1])
        /\ results[d][2] = Nil
        /\ elem[d] = start[d] + 1

\* the channels in e.updateCh, as a set
WakeSignals == {updateCh[i] : i \in 1..Len(updateCh)}

\* C20: e.updateCh changes only when a subscribe registers, by one channel
\* that was not in it, put at the end; subscribe and Close leave the chain and
\* its head alone, push and Close leave e.updateCh alone; so a subscription
\* stays registered, closed or not, and every push linked after it was
\* registered has it in its fan-out.
C20_WakeSignalsOnlyGrow ==
    /\ [](\A c \in Cursors :
            Attached(c) =>
                /\ c \in WakeSignals
                /\ \A i \in (regAt[c] + 1)..Len(event) : c \in fanout[i])
    /\ [][/\ updateCh' # updateCh =>
                \E c \in Cursors :
                    /\ HeadRegister(c)
                    /\ c \notin WakeSignals
                    /\ updateCh' = Append(updateCh, c)
          /\ (\E c \in Cursors : HeadLock(c) \/ HeadRegister(c) \/ Close(c)) =>
                UNCHANGED <<event, next, head>>
          /\ (\E c \in Cursors : Close(c)) => UNCHANGED updateCh]_vars

\* both subscriptions are registered and a push is about to notify one that
\* is closed
C20_Witness ==
    \E w \in Writers, c \in Cursors :
        /\ Len(updateCh) = 2
        /\ closeCh[c] = "closed"
        /\ wpc[w] = "notify"
        /\ wrange[w] # <<>>
        /\ Head(wrange[w]) = c

\* ---- the output channel of GetEventCh -------------------------------------------
\* C21: every value received from the output channel is an event, never nil;
\* and once the forwarding goroutine has returned, no receive on the channel
\* completes: the channel is not closed and has no sender left.
C21_OutputNeverClosed ==
    /\ [](\A c \in Cursors :
            \A i \in 1..Len(received[c]) : IsEvent(received[c][i]))
    /\ [](\A c \in Cursors : fwd[c] = "done" => ~ENABLED ChanReceive(c))

\* the cursor was closed after an event was delivered, and the forwarding
\* goroutine has returned
C21_Witness ==
    \E c \in Cursors :
        /\ closeCh[c] = "closed"
        /\ fwd[c] = "done"
        /\ Len(received[c]) = 1

\* ---- staking: bytes, big integers, hashes -----------------------------------------
\* A byte slice is a sequence of numbers 0..255, most significant first where
\* it stands for a number; a big.Int that is not negative is the slice its
\* Bytes() returns, without leading zeros.  A Keccak digest is not computed:
\* it is the term <<KeccakOpen>> \o preimage \o <<KeccakClose, offset>>,
\* where offset is what has been added to the digest read as a number, so
\* digests of different preimages differ and digest+i differs from digest+j.
ByteSize == 256
HashLength == 32
KeccakOpen == 256
KeccakClose == 257

Zeros(n) == [i \in 1..n |-> 0]

RECURSIVE StripZeros(_)
StripZeros(b) ==
    IF b # <<>> /\ Head(b) = 0 THEN StripZeros(Tail(b)) ELSE b

\* big.NewInt(n).Bytes() for n >= 0
RECURSIVE NatBytes(_)
NatBytes(n) ==
    IF n = 0 THEN <<>> ELSE Append(NatBytes(n \div ByteSize), n % ByteSize)

IsDigest(b) == b # <<>> /\ Head(b) = KeccakOpen

\* keccak.Keccak256(nil, b)
Keccak256(b) == <<KeccakOpen>> \o b \o <<KeccakClose, 0>>

\* common.PadLeftOrTrim(b, size): the last size bytes, zeros put in front
PadLeftOrTrim(b, size) ==
    IF Len(b) >= size
      THEN SubSeq(b, Len(b) - size + 1, Len(b))
      ELSE Zeros(size - Len(b)) \o b

\* types.BytesToHash(b); a digest has HashLength bytes already
BytesToHash(b) == IF IsDigest(b) THEN b ELSE PadLeftOrTrim(b, HashLength)

\* z.Add(x, y) on the Bytes() of two big.Int that are not negative
RECURSIVE AddCarry(_, _, _)
AddCarry(x, y, carry) ==
    IF x = <<>> /\ y = <<>>
      THEN IF carry = 0 THEN <<>> ELSE <<carry>>
      ELSE LET a == IF x = <<>> THEN 0 ELSE Last(x)
               b == IF y = <<>> THEN 0 ELSE Last(y)
               xs == IF x = <<>> THEN <<>> ELSE SubSeq(x, 1, Len(x) - 1)
               ys == IF y = <<>> THEN <<>> ELSE SubSeq(y, 1, Len(y) - 1)
               sum == a + b + carry
           IN  Append(AddCarry(xs, ys, sum \div ByteSize), sum % ByteSize)

BigAdd(x, y) == StripZeros(AddCarry(x, y, 0))

\* getIndexWithOffset(keccakHash, offset)
getIndexWithOffset(keccakHash, offset) ==
    IF IsDigest(keccakHash)
      THEN [keccakHash EXCEPT ![Len(keccakHash)] = @ + offset]
      ELSE BigAdd(StripZeros(keccakHash), NatBytes(offset))

\* storageMap[k] = v, and storageMap[k] read (the zero Hash when k is absent)
MapSet(m, k, v) ==
    IF k \in DOMAIN m THEN [m EXCEPT ![k] = v] ELSE m @@ (k :> v)
MapGet(m, k) == IF k \in DOMAIN m THEN m[k] ELSE Zeros(HashLength)
EmptyMap == <<>>

\* ---- staking: setBytesToStorage ----------------------------------------------------
ShortLimit == 31
numBytesInSlot == 256 \div 8

\* byte(n): the conversion keeps the low eight bits
ByteOf(n) == n % ByteSize

\* slotIndex and byteIndex of the loop's round i
SlotIndexOf(zeroIndex, i) ==
    BytesToHash(getIndexWithOffset(zeroIndex, i \div numBytesInSlot))
ByteIndexOf(i) == i % numBytesInSlot

SetMax(S) == CHOOSE x \in S : \A y \in S : y <= x

\* for i := 0; i < dataLen; i++ { slot := storageMap[slotIndex];
\* slot[byteIndex] = data[i]; storageMap[slotIndex] = slot }: the map after
\* the last round.  A byte of a slot holds what the last round that stored to
\* it put there, and what it held before the loop (zero when the key was
\* absent) if no round did.
StoreBytes(storageMap, zeroIndex, data) ==
    LET rounds == 0..(Len(data) - 1)
        touched == {SlotIndexOf(zeroIndex, i) : i \in rounds}
        slotAfter(k) ==
            [b \in 1..HashLength |->
               LET stores == {i \in rounds :
                                /\ SlotIndexOf(zeroIndex, i) = k
                                /\ ByteIndexOf(i) + 1 = b}
               IN  IF stores = {}
                     THEN MapGet(storageMap, k)[b]
                     ELSE data[SetMax(stores) + 1]]
    IN  [k \in DOMAIN storageMap \cup touched |->
           IF k \in touched THEN slotAfter(k) ELSE storageMap[k]]

setBytesToStorage(storageMap, baseIndexBytes, data) ==
    LET dataLen == Len(data)
        baseIndex == BytesToHash(baseIndexBytes)
    IN  IF dataLen <= ShortLimit
          THEN MapSet(storageMap, baseIndex,
                      [data \o Zeros(HashLength - dataLen)
                         EXCEPT ![HashLength] = ByteOf(dataLen * 2)])
          ELSE StoreBytes(
                 MapSet(storageMap, baseIndex,
                        [Zeros(HashLength)
                           EXCEPT ![HashLength] = ByteOf(2 * dataLen + 1)]),
                 Keccak256(baseIndexBytes), data)

\* the arguments tried: every length up to MaxDataLen, bytes that are not
\* zero and differ from place to place, a short base index and a digest
MaxDataLen == 130
NumSeeds == 2

DataOf(len, seed) == [i \in 1..len |-> ((i * seed) % (ByteSize - 1)) + 1]
BaseIndexes == {<<7>>, Keccak256(<<7>>)}

SetBytesCall(len, seed, base) ==
    /\ bytesIn = <<>>
    /\ bytesIn' = <<base, DataOf(len, seed)>>
    /\ bytesOut' = <<setBytesToStorage(EmptyMap, base, DataOf(len, seed))>>
    /\ UNCHANGED <<stakingIn, stakingOut, mockVars>>
    /\ UNCHANGED <<streamVars, writerVars, cursorVars, chVars, headerVars>>

NextBytes ==
    \E len \in 0..MaxDataLen, seed \in 1..NumSeeds, base \in BaseIndexes :
        SetBytesCall(len, seed, base)

BytesSpec == Init /\ [][NextBytes]_vars

\* the number a Hash holds, as the Bytes() of a big.Int
HashNumber(h) == StripZeros(h)

\* C24: after setBytesToStorage, for data of length L <= 31 the base slot
\* holds the data from its first byte on and 2*L in its last byte; for
\* L >= 32 the base slot holds the number 2*L+1, and byte i of the data is
\* byte i mod 32 of the slot keccak(base) + i div 32.
C24_SolidityBytesLayout ==
    bytesOut # <<>> =>
        LET base == bytesIn[1]
            data == bytesIn[2]
            L == Len(data)
            m == bytesOut[1]
        IN  IF L <= 31
              THEN /\ SubSeq(MapGet(m, BytesToHash(base)), 1, L) = data
                   /\ MapGet(m, BytesToHash(base))[32] = 2 * L
              ELSE /\ HashNumber(MapGet(m, BytesToHash(base)))
                        = NatBytes(2 * L + 1)
                   /\ \A i \in 0..(L - 1) :
                         MapGet(m, BytesToHash(getIndexWithOffset(
                                     Keccak256(base), i \div 32)))[(i % 32) + 1]
                           = data[i + 1]

\* ---- staking: hex strings and fixed-width integers --------------------------------
\* A hex string is the sequence of its digits' values, without the 0x prefix.
HexBase == 16

\* two hex digits a byte, a 0 put in front of an odd number of digits
RECURSIVE HexPairs(_)
HexPairs(digits) ==
    IF digits = <<>>
      THEN <<>>
      ELSE <<digits[1] * HexBase + digits[2]>> \o HexPairs(Tail(Tail(digits)))

\* types.StringToBytes(str)
StringToBytes(digits) ==
    HexPairs(IF Len(digits) % 2 = 1 THEN <<0>> \o digits ELSE digits)

\* types.StringToHash(str)
StringToHash(digits) == BytesToHash(StringToBytes(digits))

\* the digits of the bytes, two a byte
RECURSIVE HexDigits(_)
HexDigits(b) ==
    IF b = <<>>
      THEN <<>>
      ELSE <<Head(b) \div HexBase, Head(b) % HexBase>> \o HexDigits(Tail(b))

\* hex.EncodeBig(x) and hex.EncodeUint64(i): no leading zero digit, "0x0" for 0
EncodeBig(x) ==
    LET digits == StripZeros(HexDigits(x))
    IN  IF digits = <<>> THEN <<0>> ELSE digits

\* types.ParseUint256orHex(&val) for a val that starts with 0x
ParseUint256orHex(digits) == StripZeros(StringToBytes(digits))

\* a uint64 is the sequence of its Uint64Bytes bytes
Uint64Bytes == 8
SignBit == 128

\* 2^64 - x, for x > 0
Negated(x) ==
    PadLeftOrTrim(BigAdd(StripZeros([i \in 1..Len(x) |-> (ByteSize - 1) - x[i]]),
                         <<1>>),
                  Uint64Bytes)

\* big.NewInt(int64(x)).Bytes() for a uint64 x: int64(x) is negative when the
\* top bit of x is set, and Bytes() is the absolute value
Int64Bytes(x) ==
    IF x[1] >= SignBit THEN StripZeros(Negated(x)) ELSE StripZeros(x)

\* ---- staking: PredeployStakingSC ---------------------------------------------------
validatorsSlot == 0
addressToIsValidatorSlot == 1
addressToStakedAmountSlot == 2
addressToValidatorIndexSlot == 3
stakedAmountSlot == 4
minNumValidatorSlot == 5
maxNumValidatorSlot == 6
addressToBLSPublicKeySlot == 7

\* "0x21E19E0C9BAB2400000"
DefaultStakedBalance ==
    <<2, 1, 14, 1, 9, 14, 0, 12, 9, 11, 10, 11, 2, 4, 0, 0, 0, 0, 0>>

\* a validator is [addr: its address, isBLS, key: its BLS public key]
AddressLength == 20
AddressBytes(a) == PadLeftOrTrim(<<a>>, AddressLength)

getAddressMapping(address, slot) ==
    Keccak256(PadLeftOrTrim(address, HashLength)
                \o PadLeftOrTrim(NatBytes(slot), HashLength))

getStorageIndexes(validator, index) ==
    [ AddressToIsValidatorIndex |->
          getAddressMapping(validator.addr, addressToIsValidatorSlot),
      AddressToStakedAmountIndex |->
          getAddressMapping(validator.addr, addressToStakedAmountSlot),
      AddressToValidatorIndexIndex |->
          getAddressMapping(validator.addr, addressToValidatorIndexSlot),
      ValidatorBLSPublicKeyIndex |->
          getAddressMapping(validator.addr, addressToBLSPublicKeySlot),
      ValidatorsIndex |->
          getIndexWithOffset(
            Keccak256(PadLeftOrTrim(NatBytes(validatorsSlot), HashLength)),
            index) ]

\* the body of the loop for validator idx (counted from 0)
StakeValidator(storageMap, validator, idx) ==
    LET bigDefaultStakedBalance == ParseUint256orHex(DefaultStakedBalance)
        storageIndexes == getStorageIndexes(validator, idx)
        m1 == MapSet(storageMap, BytesToHash(storageIndexes.ValidatorsIndex),
                     BytesToHash(validator.addr))
        m2 == IF validator.isBLS
                THEN setBytesToStorage(
                       m1, storageIndexes.ValidatorBLSPublicKeyIndex,
                       validator.key)
                ELSE m1
        m3 == MapSet(m2, BytesToHash(storageIndexes.AddressToIsValidatorIndex),
                     BytesToHash(NatBytes(1)))
        m4 == MapSet(m3, BytesToHash(storageIndexes.AddressToStakedAmountIndex),
                     StringToHash(EncodeBig(bigDefaultStakedBalance)))
    IN  MapSet(m4, BytesToHash(storageIndexes.AddressToValidatorIndexIndex),
               StringToHash(EncodeBig(NatBytes(idx))))

\* for idx := 0; idx < vals.Len(); idx++ { ... }, from validator idx on;
\* acc is [storageMap, stakedAmount]
RECURSIVE StakeAll(_, _, _)
StakeAll(acc, vals, idx) ==
    IF idx >= Len(vals)
      THEN acc
      ELSE StakeAll(
             [ storageMap |-> StakeValidator(acc.storageMap, vals[idx + 1], idx),
               stakedAmount |->
                   BigAdd(acc.stakedAmount,
                          ParseUint256orHex(DefaultStakedBalance)) ],
             vals, idx + 1)

\* the GenesisAccount returned (its Code left out); valsNil says that vals is
\* the nil interface
PredeployStakingSC(valsNil, vals, params) ==
    LET fresh == [storageMap |-> EmptyMap, stakedAmount |-> NatBytes(0)]
        looped == IF ~valsNil THEN StakeAll(fresh, vals, 0) ELSE fresh
        valsLen == IF ~valsNil THEN NatBytes(Len(vals)) ELSE NatBytes(0)
        s4 == MapSet(looped.storageMap,
                     BytesToHash(NatBytes(stakedAmountSlot)),
                     BytesToHash(looped.stakedAmount))
        s0 == MapSet(s4, BytesToHash(NatBytes(validatorsSlot)),
                     BytesToHash(valsLen))
        s5 == MapSet(s0, BytesToHash(NatBytes(minNumValidatorSlot)),
                     BytesToHash(Int64Bytes(params.MinValidatorCount)))
        s6 == MapSet(s5, BytesToHash(NatBytes(maxNumValidatorSlot)),
                     BytesToHash(Int64Bytes(params.MaxValidatorCount)))
    IN  [Storage |-> s6, Balance |-> looped.stakedAmount]

\* the arguments tried: the nil list and every list of up to MaxVals
\* validators, ECDSA or BLS, over NumAddrs addresses (so that an address can
\* come twice); counts 1, common.MaxSafeJSInt, 2^63 and 2^64-1
MaxVals == 2
NumAddrs == 2
BLSKeyLength == 48

ValidatorChoices ==
    {[addr |-> AddressBytes(a), isBLS |-> FALSE, key |-> <<>>] :
        a \in 1..NumAddrs}
    \cup {[addr |-> AddressBytes(a), isBLS |-> TRUE,
           key |-> DataOf(BLSKeyLength, a)] : a \in 1..NumAddrs}

ValidatorLists ==
    UNION {[1..n -> ValidatorChoices] : n \in 0..MaxVals}

MaxSafeJSInt == <<0, 31, 255, 255, 255, 255, 255, 255>>
CountChoices ==
    { PadLeftOrTrim(<<1>>, Uint64Bytes),
      MaxSafeJSInt,
      <<SignBit>> \o Zeros(Uint64Bytes - 1),
      [i \in 1..Uint64Bytes |-> ByteSize - 1] }

PredeployCall(valsNil, vals, params) ==
    /\ stakingIn = <<>>
    /\ valsNil => vals = <<>>
    /\ stakingIn' = <<valsNil, vals, params>>
    /\ stakingOut' = <<PredeployStakingSC(valsNil, vals, params)>>
    /\ UNCHANGED <<bytesIn, bytesOut, mockVars>>
    /\ UNCHANGED <<streamVars, writerVars, cursorVars, chVars, headerVars>>

NextStaking ==
    \E valsNil \in BOOLEAN, vals \in ValidatorLists,
       lo \in CountChoices, hi \in CountChoices :
        PredeployCall(valsNil, vals,
                      [MinValidatorCount |-> lo, MaxValidatorCount |-> hi])

StakingSpec == Init /\ [][NextStaking]_vars

\* ---- staking: what the claims speak of --------------------------------------------
\* x times n, for bytes x and a small number n
RECURSIVE TimesCarry(_, _, _)
TimesCarry(x, n, carry) ==
    IF x = <<>>
      THEN NatBytes(carry)
      ELSE LET p == Last(x) * n + carry
           IN  Append(TimesCarry(SubSeq(x, 1, Len(x) - 1), n, p \div ByteSize),
                      p % ByteSize)

Times(x, n) == StripZeros(TimesCarry(x, n, 0))

\* the bytes of 0x21E19E0C9BAB2400000
StakedBalanceBytes == <<2, 30, 25, 224, 201, 186, 178, 64, 0, 0>>

\* the key of slot number k, and the number held at that key
SlotKey(k) == PadLeftOrTrim(NatBytes(k), 32)
SlotNumber(m, k) == HashNumber(MapGet(m, SlotKey(k)))

\* C22: the balance of the account is n times DefaultStakedBalance, slot 4
\* holds the same number, slot 0 holds n, and slots 5 and 6 hold
\* params.MinValidatorCount and params.MaxValidatorCount.
C22_TotalsAndParams ==
    stakingOut # <<>> =>
        LET n == Len(stakingIn[2])
            params == stakingIn[3]
            account == stakingOut[1]
        IN  /\ account.Balance = Times(StakedBalanceBytes, n)
            /\ SlotNumber(account.Storage, 4) = Times(StakedBalanceBytes, n)
            /\ SlotNumber(account.Storage, 0) = NatBytes(n)
            /\ SlotNumber(account.Storage, 5)
                 = StripZeros(params.MinValidatorCount)
            /\ SlotNumber(account.Storage, 6)
                 = StripZeros(params.MaxValidatorCount)

\* the key of element i of the array at slot k, and of the entry of address
\* a in the mapping at slot k
ArrayKey(k, i) == getIndexWithOffset(Keccak256(SlotKey(k)), i)
MappingKey(a, k) == Keccak256(PadLeftOrTrim(a, 32) \o SlotKey(k))

\* C23: for every position i of the list, element i of the validators array
\* (slot 0) holds the address of validator i, and for that address the index
\* mapping (slot 3) holds i, the is-validator mapping (slot 1) holds 1 and the
\* staked-amount mapping (slot 2) holds DefaultStakedBalance.
C23_ArrayAndMappingsAgree ==
    stakingOut # <<>> =>
        LET vals == stakingIn[2]
            m == stakingOut[1].Storage
        IN  \A i \in 0..(Len(vals) - 1) :
               LET a == vals[i + 1].addr
               IN  /\ HashNumber(MapGet(m, ArrayKey(0, i))) = StripZeros(a)
                   /\ HashNumber(MapGet(m, MappingKey(a, 3))) = NatBytes(i)
                   /\ HashNumber(MapGet(m, MappingKey(a, 1))) = NatBytes(1)
                   /\ HashNumber(MapGet(m, MappingKey(a, 2)))
                        = StakedBalanceBytes

\* ---- MockSubscription ---------------------------------------------------------------
\* m.eventCh is unbuffered: a send and a receive complete together, when a
\* sender blocked in Push meets a receiver blocked in GetEvent or in a receive
\* on the channel GetEventCh returned (the same channel).  Events are numbered
\* by their Push calls.

\* (Close closes m.eventCh)
MockAfterCloseClosed(ch) == "closed"

\* func (m *MockSubscription) Close() {}: the channel as Close leaves it
MockAfterClose(ch) == ch

MockFrame == UNCHANGED <<streamVars, writerVars, cursorVars, chVars,
                         headerVars, stakingVars>>

\* Push(e) is called: m.eventCh <- e blocks
MockPush(p) ==
    /\ mockPush[p] = "idle"
    /\ mockSent < MaxMockPush
    /\ mockSent' = mockSent + 1
    /\ mockEv' = [mockEv EXCEPT ![p] = mockSent + 1]
    /\ mockPush' = [mockPush EXCEPT ![p] = "send"]
    /\ UNCHANGED <<mockCh, mockGet, mockGot, mockLog, mockCloses>>
    /\ MockFrame

\* GetEvent() is called, or a receive on GetEventCh() begins: <-m.eventCh
\* blocks
MockGetEvent(g) ==
    /\ mockGet[g] = "idle"
    /\ Len(mockGot[g]) < MaxMockPush
    /\ mockGet' = [mockGet EXCEPT ![g] = "recv"]
    /\ UNCHANGED <<mockCh, mockPush, mockEv, mockGot, mockLog, mockSent,
                   mockCloses>>
    /\ MockFrame

\* the receive of g completes: with the event of a blocked sender, whose Push
\* returns; a receive from a closed channel completes with nil
MockReceive(g) ==
    /\ mockGet[g] = "recv"
    /\ IF mockCh = "closed"
         THEN /\ mockGot' = [mockGot EXCEPT ![g] = Append(@, Nil)]
              /\ UNCHANGED <<mockPush, mockEv, mockLog>>
         ELSE \E p \in Pushers :
                /\ mockPush[p] = "send"
                /\ mockGot' = [mockGot EXCEPT ![g] = Append(@, mockEv[p])]
                /\ mockLog' = Append(mockLog, mockEv[p])
                /\ mockPush' = [mockPush EXCEPT ![p] = "idle"]
                /\ UNCHANGED mockEv
    /\ mockGet' = [mockGet EXCEPT ![g] = "idle"]
    /\ UNCHANGED <<mockCh, mockSent, mockCloses>>
    /\ MockFrame

MockClose ==
    /\ mockCloses < MaxClose
    /\ mockCloses' = mockCloses + 1
    /\ mockCh' = MockAfterClose(mockCh)
    /\ UNCHANGED <<mockPush, mockEv, mockGet, mockGot, mockLog, mockSent>>
    /\ MockFrame

NextMock ==
    \/ \E p \in Pushers : MockPush(p)
    \/ \E g \in Getters : MockGetEvent(g)
    \/ \E g \in Getters : MockReceive(g)
    \/ MockClose

MockSpec == Init /\ [][NextMock]_vars

\* the events whose Push is blocked in its send
MockInFlight == {mockEv[p] : p \in {q \in Pushers : mockPush[q] = "send"}}
\* how often event e was received by g, and by anyone
TimesGot(g, e) == Cardinality({i \in 1..Len(mockGot[g]) : mockGot[g][i] = e})
TakersOf(e) == {g \in Getters : TimesGot(g, e) > 0}

RECURSIVE IsSubSeq(_, _)
IsSubSeq(a, b) ==
    IF a = <<>> THEN TRUE
    ELSE IF b = <<>> THEN FALSE
    ELSE IF Head(a) = Head(b) THEN IsSubSeq(Tail(a), Tail(b))
    ELSE IsSubSeq(a, Tail(b))

\* C25: an event whose Push is blocked has been received by nobody, and an
\* event whose Push has returned was received exactly once, by one receiver;
\* each receiver got its events in the order the sends completed, and only
\* events; a Push returns only in the step in which a receiver takes its
\* event; Close changes nothing, and releases neither a receiver that has no
\* sender nor a sender that has no receiver.
C25_MockRendezvous ==
    /\ [](\A e \in 1..mockSent :
            IF e \in MockInFlight
              THEN TakersOf(e) = {}
              ELSE /\ Cardinality(TakersOf(e)) = 1
                   /\ \A g \in TakersOf(e) : TimesGot(g, e) = 1)
    /\ [](\A g \in Getters :
            /\ IsSubSeq(mockGot[g], mockLog)
            /\ \A i \in 1..Len(mockGot[g]) : IsEvent(mockGot[g][i]))
    /\ [](\A g \in Getters :
            (mockGet[g] = "recv" /\ MockInFlight = {}) =>
                ~ENABLED MockReceive(g))
    /\ [][/\ \A p \in Pushers :
               (mockPush[p] = "send" /\ mockPush'[p] = "idle") =>
                   \E g \in Getters :
                       /\ mockGet[g] = "recv"
                       /\ mockGot'[g] = Append(mockGot[g], mockEv[p])
          /\ mockCloses' # mockCloses =>
               UNCHANGED <<mockCh, mockPush, mockEv, mockGet, mockGot,
                           mockLog, mockSent>>]_vars

\* two events have been delivered, Close has been called, and a receiver is
\* blocked with no sender
C25_Witness ==
    /\ mockCloses > 0
    /\ Len(mockLog) = 2
    /\ \E g \in Getters : mockGet[g] = "recv"
    /\ MockInFlight = {}

====
